---- MODULE Spec2Model ----
(***************************************************************************)
(* Model of main.py: the route optimiser script.  The script runs top to   *)
(* bottom: it reads the stops, builds the haversine distance matrix and    *)
(* the travel time matrix, wires an OR-Tools routing model (capacity and   *)
(* time dimensions, time windows), solves, walks the solution into routes, *)
(* draws the map, and finally defines get_traffic_matrix.                  *)
(*                                                                         *)
(* Numbers.  Python floats are modelled in fixed point: coordinates are    *)
(* tenths of a degree, small angles carry 5 decimal digits (Scale5),       *)
(* cosines 4 (Scale4), a distance is a whole number of metres.  A float is *)
(* a record [nan, v]: NaN propagates through arithmetic as in IEEE 754.    *)
(***************************************************************************)
EXTENDS Integers, Sequences, FiniteSets, TLC

\* ------------------------------------------------------------------ bounds
\* Number of CSV rows beyond the seven that have a hard-coded time window.
ExtraStops == 0

\* --------------------------------------------------------------- constants
num_vehicles == 3
vehicle_capacity == 3
speed == 40
R == 6371
SlackMax == 30
Horizon == 600

time_windows ==
  <<  <<0, 600>>, <<0, 200>>, <<50, 300>>, <<100, 400>>,
      <<200, 500>>, <<150, 450>>, <<250, 600>>  >>

NumWindows == Len(time_windows)

\* ------------------------------------------------------- float arithmetic
Scale4 == 10^4
Scale5 == 10^5
Pi5 == 314159

Fin(x) == [nan |-> FALSE, v |-> x]
NaNF == [nan |-> TRUE, v |-> 0]

Abs(x) == IF x < 0 THEN -x ELSE x

\* Division that truncates toward zero, as a float-to-int cast does.
TruncDiv(a, b) == IF a >= 0 THEN a \div b ELSE -((-a) \div b)

\* floor(a * b / s) for a, b >= 0 without leaving 32 bits: b is split at s.
MulScaled(a, b, s) == a * (b \div s) + (a * (b % s)) \div s

RECURSIVE ISqrtIn(_, _, _)
ISqrtIn(x, lo, hi) ==
  IF lo >= hi THEN lo
  ELSE LET mid == (lo + hi + 1) \div 2
       IN IF mid * mid <= x THEN ISqrtIn(x, mid, hi) ELSE ISqrtIn(x, lo, mid - 1)

\* math.sqrt on a non-negative fixed-point value: the integer square root.
ISqrt(x) == ISqrtIn(x, 0, 46340)

\* math.radians of d tenths of a degree, 5 decimal digits.
Radians5(d) == TruncDiv(d * Pi5, 1800)

\* math.radians of d tenths of a degree, 4 decimal digits.
Radians4(d) == TruncDiv(d * (Pi5 \div 10), 1800)

\* math.sin of a small angle (5 digits): the odd Taylor polynomial.
SinPos5(x) ==
  LET x2 == MulScaled(x, x, Scale5)
      x3 == MulScaled(x2, x, Scale5)
      x5 == MulScaled(x3, x2, Scale5)
  IN x - x3 \div 6 + x5 \div 120

Sin5(x) == IF x < 0 THEN -SinPos5(-x) ELSE SinPos5(x)

\* math.cos (4 digits): the even Taylor polynomial.
Cos4(x) ==
  LET x2 == (x * x) \div Scale4
      x4 == (x2 * x2) \div Scale4
      x6 == (x4 * x2) \div Scale4
  IN Scale4 - x2 \div 2 + x4 \div 24 - x6 \div 720

\* math.atan of z in [0, 1] (5 digits).
Atan5(z) ==
  LET z2 == MulScaled(z, z, Scale5)
      z3 == MulScaled(z2, z, Scale5)
      z5 == MulScaled(z3, z2, Scale5)
  IN z - z3 \div 3 + z5 \div 5

\* math.atan2(y, x) for y >= 0 (5 digits) and x > 0 (4 digits), y/x <= 1.
Atan2(y5, x4) == Atan5((y5 * Scale4) \div x4)

\* haversine(lat1, lon1, lat2, lon2): kilometres with 3 decimal digits, that
\* is metres; NaN when any argument is NaN.  Arguments are float records.
haversine(lat1, lon1, lat2, lon2) ==
  IF lat1.nan \/ lon1.nan \/ lat2.nan \/ lon2.nan THEN NaNF
  ELSE
    LET dlat == Radians5(lat2.v - lat1.v)
        dlon == Radians5(lon2.v - lon1.v)
        sLat == Sin5(TruncDiv(dlat, 2))
        sLon == Sin5(TruncDiv(dlon, 2))
        cc == (Cos4(Radians4(lat1.v)) * Cos4(Radians4(lat2.v))) \div Scale4
        a == sLat * sLat + MulScaled(cc, sLon * sLon, Scale4)
        c == 2 * Atan2(ISqrt(a), ISqrt(Scale4 * Scale4 - a \div 100))
    IN Fin((R * c) \div 100)


\* The cast astype(int) of a float: truncation toward zero.  The cast of NaN
\* is undefined in C; NumPy yields the minimum integer on x86-64 and 0 on
\* AArch64.  IntMin stands for the minimum integer at the model's width.
IntMin == -(2^30)
NaNCastOutcomes == {IntMin, 0}

astype_int(f, nanCast) == IF f.nan THEN nanCast ELSE f.v

\* Distances d at which the float expression (d/1000)/40*60 falls just short
\* of the whole number d*60/40000 (IEEE 754 double, d < 2,564,000 m).
FloatShortfall ==
  {82000, 164000, 328000, 338000, 646000, 656000, 666000, 676000}
    \cup {1282000 + 10000 * k : k \in 0..8}

\* One entry of time_matrix: int((d / 1000) / speed * 60).
TravelMinutes(d) ==
  LET den == (1000 * speed) \div 20
      m == Abs(d)
      t == 3 * (m \div den) + (3 * (m % den)) \div den
  IN IF d < 0 THEN -t
     ELSE IF d \in FloatShortfall THEN t - 1
     ELSE t

\* ----------------------------------------------------------------- input
\* A CSV cell holds a finite number (tenths of a degree), is empty (pandas
\* reads NaN) or holds "inf".
FinC(x) == [k |-> "fin", v |-> x]
NaNC == [k |-> "nan", v |-> 0]
InfC == [k |-> "inf", v |-> 0]

AsFloat(c) == IF c.k = "nan" THEN NaNF ELSE Fin(c.v)

\* The regular layout of the stops: a grid of three columns, 0.6 degree
\* (about 66 km, 100 minutes at 40 km/h) between neighbours.
Site(i) == [lat |-> FinC(100 + 6 * (i % 3)), lon |-> FinC(200 + 6 * (i \div 3))]

\* Rows the last line of the file may hold instead of the regular one: an
\* empty latitude, an infinite one, and a stop some 660 km from the depot.
SpecialRows ==
  { [lat |-> NaNC, lon |-> FinC(200)],
    [lat |-> InfC, lon |-> FinC(200)],
    [lat |-> FinC(160), lon |-> FinC(200)] }

StopCounts == {0, NumWindows - 1} \cup (NumWindows..(NumWindows + ExtraStops))

Inputs ==
  UNION { { [i \in 0..(k - 1) |-> Site(i)] }
            \cup { [i \in 0..(k - 1) |-> IF i = k - 1 THEN row ELSE Site(i)] :
                     row \in IF k = 0 THEN {} ELSE SpecialRows }
          : k \in StopCounts }

\* -------------------------------------------------- the index manager
\* RoutingIndexManager(n, num_vehicles, 0): node i has index i; vehicle 0
\* starts at index 0, the other vehicles' starts and all ends follow.
Size(k) == k + num_vehicles - 1
Indices(k) == 0..(k + 2 * num_vehicles - 2)
Start(k, v) == IF v = 0 THEN 0 ELSE k + v - 1
End(k, v) == Size(k) + v
IsEnd(k, index) == index >= Size(k)
IndexToNode(k, index) == IF index < k THEN index ELSE 0
NodeToIndex(i) == i


\* ------------------------------------------------------------------ state
VARIABLES
  pc,             \* the statement the script is at
  coords,         \* coords: the rows of locations.csv, stop index -> row
  dist_matrix,    \* dist_matrix: <<i, j>> -> metres
  time_matrix,    \* time_matrix: <<i, j>> -> minutes
  demands,        \* demands: stop index -> units
  cumulRange,     \* the Time dimension's CumulVar ranges, index -> <<lo, hi>>
  solution,       \* solution: "unset", "None" or an assignment
  vehicle_id,     \* the loop variable of the report loop
  routes,         \* routes: one node list per vehicle reported so far
  printed,        \* the "Stop i Time(min-max)" lines, per vehicle
  total_distance, \* total_distance
  error,          \* the exception that ended the script, "" if none
  mapSaved,       \* routes_map.html written
  traffic         \* outcome of a call of get_traffic_matrix

vars ==
  << pc, coords, dist_matrix, time_matrix, demands, cumulRange, solution,
     vehicle_id, routes, printed, total_distance, error, mapSaved, traffic >>

n == Cardinality(DOMAIN coords)
Nodes == 0..(n - 1)

Max(a, b) == IF a >= b THEN a ELSE b
Min(a, b) == IF a <= b THEN a ELSE b

\* ------------------------------------------------------- the constraints
\* distance_callback / GetArcCostForVehicle: the arc cost between indices.
distance_callback(from_index, to_index) ==
  dist_matrix[<<IndexToNode(n, from_index), IndexToNode(n, to_index)>>]

\* demand_callback: the demand picked up at an index.
demand_callback(from_index) == demands[IndexToNode(n, from_index)]

\* time_callback: the travel time between indices.
time_callback(from_index, to_index) ==
  time_matrix[<<IndexToNode(n, from_index), IndexToNode(n, to_index)>>]

\* The path of indices of vehicle v that serves the stops of seq in order.
PathOf(v, seq) == <<Start(n, v)>> \o seq \o <<End(n, v)>>

\* The Capacity dimension along a path: the cumul starts at zero, grows by
\* the demand of each index left (no slack) and stays in [0, capacity].
RECURSIVE CapacityCumul(_, _)
CapacityCumul(path, k) ==
  IF k = 1 THEN 0
  ELSE CapacityCumul(path, k - 1) + demand_callback(path[k - 1])

\* CapacityOK with the capacity off by one.
CapacityOK_OffByOne(path) ==
  \A k \in 1..Len(path) :
    /\ CapacityCumul(path, k) >= 0
    /\ CapacityCumul(path, k) <= vehicle_capacity + 1

CapacityOK(path) ==
  \A k \in 1..Len(path) :
    /\ CapacityCumul(path, k) >= 0
    /\ CapacityCumul(path, k) <= vehicle_capacity

\* The Time dimension along a path.  cumul(next) = cumul + transit + slack
\* with 0 <= slack <= SlackMax, every cumul within its range.  Forward pass
\* of the bounds, then backward pass: on a path this is the fixpoint the
\* solver's propagation reaches.
\* TimeForward with no cap on the slack: a vehicle may wait as long as the
\* range of the next cumul allows.
RECURSIVE TimeForward_NoSlackCap(_, _)
TimeForward_NoSlackCap(path, k) ==
  IF k = 1 THEN << cumulRange[path[1]] >>
  ELSE LET before == TimeForward_NoSlackCap(path, k - 1)
           prev == before[k - 1]
           t == time_callback(path[k - 1], path[k])
           rng == cumulRange[path[k]]
       IN Append(before, << Max(rng[1], prev[1] + t), rng[2] >>)

RECURSIVE TimeForward(_, _)
TimeForward(path, k) ==
  IF k = 1 THEN << cumulRange[path[1]] >>
  ELSE LET before == TimeForward(path, k - 1)
           prev == before[k - 1]
           t == time_callback(path[k - 1], path[k])
           rng == cumulRange[path[k]]
       IN Append(before, << Max(rng[1], prev[1] + t),
                            Min(rng[2], prev[2] + t + SlackMax) >>)

RECURSIVE TimeBackward(_, _, _)
TimeBackward(path, fwd, k) ==
  IF k = Len(path) THEN [i \in {k} |-> fwd[k]]
  ELSE LET after == TimeBackward(path, fwd, k + 1)
           nxt == after[k + 1]
           t == time_callback(path[k], path[k + 1])
       IN [i \in k..Len(path) |->
             IF i = k
               THEN << Max(fwd[k][1], nxt[1] - t - SlackMax),
                       Min(fwd[k][2], nxt[2] - t) >>
               ELSE after[i]]

\* Position on the path -> <<min, max>> of the Time cumul there.
TimeBounds(path) == TimeBackward(path, TimeForward(path, Len(path)), 1)

NonEmptyBounds(b) == \A k \in DOMAIN b : b[k][1] <= b[k][2]

TimeOK(path) == NonEmptyBounds(TimeBounds(path))

\* A prefix of a path (no end yet) that the forward pass already empties
\* cannot be completed.
PrefixOK(v, seq) ==
  LET path == <<Start(n, v)>> \o seq
  IN /\ CapacityOK(path \o <<End(n, v)>>)
     /\ NonEmptyBounds(TimeForward(path, Len(path)))

RouteOK(v, seq) == CapacityOK(PathOf(v, seq)) /\ TimeOK(PathOf(v, seq))

\* Every route vehicle v can drive over stops of S.
RECURSIVE RoutesFrom(_, _, _)
RoutesFrom(v, S, seq) ==
  (IF RouteOK(v, seq) THEN {seq} ELSE {})
    \cup UNION { RoutesFrom(v, S \ {x}, Append(seq, x)) :
                   x \in {y \in S : PrefixOK(v, Append(seq, y))} }

Range(seq) == {seq[k] : k \in DOMAIN seq}

\* The assignments of the stops of S to the vehicles v, v+1, ...: every stop
\* on exactly one route (the model has no disjunction: no stop may be left).
RECURSIVE Plans(_, _)
Plans(v, S) ==
  IF v = num_vehicles THEN (IF S = {} THEN {<<>>} ELSE {})
  ELSE UNION { { <<seq>> \o rest : rest \in Plans(v + 1, S \ Range(seq)) } :
                 seq \in RoutesFrom(v, S, <<>>) }

\* The assignment SolveWithParameters returns for a plan: NextVar of every
\* index that is not an end, and the bounds of the Time cumul of every index.
PositionOf(path, index) == CHOOSE k \in DOMAIN path : path[k] = index

VehicleOf(plan, index) ==
  CHOOSE v \in 0..(num_vehicles - 1) : index \in Range(PathOf(v, plan[v + 1]))

AssignmentOf(plan) ==
  [ next |-> [index \in 0..(Size(n) - 1) |->
                LET path == PathOf(VehicleOf(plan, index), plan[VehicleOf(plan, index) + 1])
                IN path[PositionOf(path, index) + 1]],
    time |-> [index \in Indices(n) |->
                LET path == PathOf(VehicleOf(plan, index), plan[VehicleOf(plan, index) + 1])
                IN TimeBounds(path)[PositionOf(path, index)]] ]


\* ---------------------------------------------------------------- script
NoSolution == [status |-> "unset", next |-> <<>>, time |-> <<>>]

Init ==
  /\ coords \in Inputs
  /\ pc = "dist_matrix"
  /\ dist_matrix = <<>>
  /\ time_matrix = <<>>
  /\ demands = <<>>
  /\ cumulRange = <<>>
  /\ solution = NoSolution
  /\ vehicle_id = 0
  /\ routes = <<>>
  /\ printed = <<>>
  /\ total_distance = 0
  /\ error = ""
  /\ mapSaved = FALSE
  /\ traffic = [response |-> "", outcome |-> "not_called"]

Crash(exception) == pc' = "crashed" /\ error' = exception

HasInf == \E i \in Nodes : coords[i].lat.k = "inf" \/ coords[i].lon.k = "inf"
HasNaN == \E i \in Nodes : coords[i].lat.k = "nan" \/ coords[i].lon.k = "nan"

\* Sections 3: dist_matrix[i][j] = haversine(*coords[i], *coords[j]) * 1000,
\* then astype(int).  math.sin and math.cos raise ValueError on an infinity.
BuildDistMatrix ==
  /\ pc = "dist_matrix"
  /\ \/ /\ HasInf
        /\ Crash("ValueError")
        /\ UNCHANGED dist_matrix
     \/ /\ ~HasInf
        /\ \E nanCast \in NaNCastOutcomes :
             dist_matrix' =
               [ij \in Nodes \X Nodes |->
                  astype_int(haversine(AsFloat(coords[ij[1]].lat), AsFloat(coords[ij[1]].lon),
                                       AsFloat(coords[ij[2]].lat), AsFloat(coords[ij[2]].lon)),
                             nanCast)]
        /\ pc' = "time_matrix"
        /\ UNCHANGED error
  /\ UNCHANGED << coords, time_matrix, demands, cumulRange, solution, vehicle_id,
                  routes, printed, total_distance, mapSaved, traffic >>

\* Sections 5 and 6: the time matrix and the demands [0] + [1]*(n-1).
BuildTimeMatrix ==
  /\ pc = "time_matrix"
  /\ time_matrix' = [ij \in Nodes \X Nodes |-> TravelMinutes(dist_matrix[ij])]
  /\ demands' = [i \in 0..(Max(n, 1) - 1) |-> IF i = 0 THEN 0 ELSE 1]
  /\ pc' = "model"
  /\ UNCHANGED << coords, dist_matrix, cumulRange, solution, vehicle_id, routes,
                  printed, total_distance, error, mapSaved, traffic >>

\* Section 8 up to the Time dimension: the manager, the model, the callbacks
\* and both dimensions.  With no node the depot 0 does not exist and the
\* manager reads element 0 of an empty vector: the process dies.
CreateModel ==
  /\ pc = "model"
  /\ \/ /\ n = 0
        /\ Crash("Segfault")
        /\ UNCHANGED cumulRange
     \/ /\ n > 0
        /\ cumulRange' = [index \in Indices(n) |-> <<0, Horizon>>]
        /\ pc' = "time_windows"
        /\ UNCHANGED error
  /\ UNCHANGED << coords, dist_matrix, time_matrix, demands, solution, vehicle_id,
                  routes, printed, total_distance, mapSaved, traffic >>

\* CumulVar(index).SetRange(lo, hi) for every pair of where.
RECURSIVE SetRanges(_, _, _)
SetRanges(ranges, where, i) ==
  IF i = NumWindows THEN ranges
  ELSE LET index == where[i]
           window == time_windows[i + 1]
           narrowed == [ranges EXCEPT ![index] =
                          << Max(@[1], window[1]), Min(@[2], window[2]) >>]
       IN SetRanges(narrowed, where, i + 1)

\* The loop over the seven hard-coded windows.  NodeToIndex(i) of a node
\* i >= n reads past the manager's vector: the read yields any index, or the
\* process dies.
SetTimeWindows ==
  /\ pc = "time_windows"
  /\ \/ /\ n < NumWindows
        /\ Crash("Segfault")
        /\ UNCHANGED cumulRange
     \/ /\ \E garbage \in [(n..(NumWindows - 1)) -> Indices(n)] :
             cumulRange' =
               SetRanges(cumulRange,
                         [i \in 0..(NumWindows - 1) |->
                            IF i < n THEN NodeToIndex(i) ELSE garbage[i]],
                         0)
        /\ pc' = "solve"
        /\ UNCHANGED error
  /\ UNCHANGED << coords, dist_matrix, time_matrix, demands, solution, vehicle_id,
                  routes, printed, total_distance, mapSaved, traffic >>

\* solution = routing.SolveWithParameters(search): an assignment that meets
\* every constraint of the model, or None when the search finds none.
Solve ==
  /\ pc = "solve"
  /\ \/ solution' = [status |-> "None", next |-> <<>>, time |-> <<>>]
     \/ \E plan \in Plans(0, Nodes \ {0}) :
          solution' = [status |-> "found"] @@ AssignmentOf(plan)
  /\ pc' = "report"
  /\ UNCHANGED << coords, dist_matrix, time_matrix, demands, cumulRange, vehicle_id,
                  routes, printed, total_distance, error, mapSaved, traffic >>

\* WalkStart that starts every vehicle's walk at the start of vehicle 0.
WalkStart_FirstVehicle(v) == Start(n, 0)

\* index = routing.Start(vehicle_id): where the walk of vehicle v begins.
WalkStart(v) == Start(n, v)

\* The while loop of one vehicle: the indices from index up to the end.
RECURSIVE Walk(_)
Walk(index) ==
  IF IsEnd(n, index) THEN <<>> ELSE <<index>> \o Walk(solution.next[index])

RECURSIVE SumCost(_, _, _)
SumCost(walk, v, k) ==
  IF k > Len(walk) THEN 0
  ELSE distance_callback(walk[k], solution.next[walk[k]]) + SumCost(walk, v, k + 1)

\* RouteOfWalk without the final route.append(0).
RouteOfWalk_NoReturn(walk) == [k \in 1..Len(walk) |-> IndexToNode(n, walk[k])]

\* The route list the loop builds for a walk: the node of every index, then
\* route.append(0).
RouteOfWalk(walk) == [k \in 1..Len(walk) |-> IndexToNode(n, walk[k])] \o <<0>>

\* One iteration of "for vehicle_id in range(num_vehicles)".  On a solution
\* that is None, solution.Min raises AttributeError.
ReportVehicle ==
  /\ pc = "report"
  /\ vehicle_id < num_vehicles
  /\ \/ /\ solution.status = "None"
        /\ Crash("AttributeError")
        /\ UNCHANGED << vehicle_id, routes, printed, total_distance >>
     \/ /\ solution.status = "found"
        /\ LET walk == Walk(WalkStart(vehicle_id))
           IN /\ routes' = Append(routes, RouteOfWalk(walk))
              /\ printed' = Append(printed,
                   [k \in 1..Len(walk) |->
                      [stop |-> IndexToNode(n, walk[k]),
                       min |-> solution.time[walk[k]][1],
                       max |-> solution.time[walk[k]][2]]])
              /\ total_distance' = total_distance + SumCost(walk, vehicle_id, 1)
        /\ vehicle_id' = vehicle_id + 1
        /\ UNCHANGED << pc, error >>
  /\ UNCHANGED << coords, dist_matrix, time_matrix, demands, cumulRange, solution,
                  mapSaved, traffic >>

\* The total and the map.  folium refuses a marker at a NaN location in the
\* versions that validate locations, and draws it in those that do not.
SaveMap ==
  /\ pc = "report"
  /\ vehicle_id = num_vehicles
  /\ \/ /\ HasNaN
        /\ Crash("ValueError")
        /\ UNCHANGED mapSaved
     \/ /\ mapSaved' = TRUE
        /\ pc' = "done"
        /\ UNCHANGED error
  /\ UNCHANGED << coords, dist_matrix, time_matrix, demands, cumulRange, solution,
                  vehicle_id, routes, printed, total_distance, traffic >>

\* What the provider does with a request.
ProviderResponses ==
  {"rows", "connection_error", "not_json", "no_rows_key", "no_response"}

\* get_traffic_matrix, callable once the script has run to its end.  The
\* request has no timeout; .json() and resp["rows"] raise on a failure.
get_traffic_matrix ==
  /\ pc = "done"
  /\ traffic.outcome = "not_called"
  /\ \E response \in ProviderResponses :
       traffic' =
         [response |-> response,
          outcome |-> CASE response = "rows" -> "returned"
                        [] response = "no_response" -> "blocked"
                        [] OTHER -> "raised"]
  /\ UNCHANGED << pc, coords, dist_matrix, time_matrix, demands, cumulRange, solution,
                  vehicle_id, routes, printed, total_distance, error, mapSaved >>

Next ==
  \/ BuildDistMatrix
  \/ BuildTimeMatrix
  \/ CreateModel
  \/ SetTimeWindows
  \/ Solve
  \/ ReportVehicle
  \/ SaveMap
  \/ get_traffic_matrix

Spec == Init /\ [][Next]_vars


\* ------------------------------------------------------------ the report
\* The script prints the routes and the total; it keeps no list of stops
\* that were left out.
ReportedUnassigned == {}

Stops == Nodes \ {0}

ReportComplete == vehicle_id = num_vehicles

\* The time window the script gives a stop: the hard-coded one, and the
\* whole horizon for a stop beyond the hard-coded list.
WindowOf(i) == IF i < NumWindows THEN time_windows[i + 1] ELSE <<0, Horizon>>

RECURSIVE PrefixLoad(_, _)
PrefixLoad(route, k) ==
  IF k = 0 THEN 0 ELSE PrefixLoad(route, k - 1) + demands[route[k]]

RECURSIVE RouteLength(_, _)
RouteLength(route, k) ==
  IF k >= Len(route) THEN 0
  ELSE dist_matrix[<<route[k], route[k + 1]>>] + RouteLength(route, k + 1)

RECURSIVE SumLengths(_)
SumLengths(k) ==
  IF k = 0 THEN 0
  ELSE (IF Len(routes[k]) > 2 THEN RouteLength(routes[k], 1) ELSE 0)
         + SumLengths(k - 1)

\* How often stop i occurs in the reported routes.
Occurrences(i) ==
  Cardinality({ rk \in UNION { {<<r, k>> : k \in DOMAIN routes[r]} : r \in DOMAIN routes } :
                  routes[rk[1]][rk[2]] = i })

Visited(i) == Occurrences(i) > 0

\* The printed lines of stop i.
LinesOf(i) ==
  UNION { { printed[r][k] : k \in {j \in DOMAIN printed[r] : printed[r][j].stop = i} } :
          r \in DOMAIN printed }

\* Input the specification calls invalid: no stop, a coordinate not finite.
InvalidInput == n = 0 \/ HasNaN \/ HasInf

\* A run on finite coordinates over at least the seven stops that have a
\* hard-coded window: every statement of the script is defined.
RegularRun == ~InvalidInput /\ n >= NumWindows

\* Stop i fits on no vehicle, not even alone.
Unplaceable(i) == \A v \in 0..(num_vehicles - 1) : ~RouteOK(v, <<i>>)

\* ------------------------------------------------------------------ C1
\* C1: in every reported route, the demands of every prefix (depot first)
\* sum to at least 0 and at most the vehicle capacity.
C1_PrefixLoadWithinCapacity ==
  \A r \in DOMAIN routes : \A k \in 0..Len(routes[r]) :
    /\ PrefixLoad(routes[r], k) >= 0
    /\ PrefixLoad(routes[r], k) <= vehicle_capacity

\* A report, in a run on finite coordinates with a window for every stop,
\* with a vehicle loaded to its capacity and another one in use.
C1_Witness ==
  /\ ReportComplete
  /\ RegularRun
  /\ \E r \in DOMAIN routes : PrefixLoad(routes[r], Len(routes[r])) = vehicle_capacity
  /\ \E r \in DOMAIN routes : PrefixLoad(routes[r], Len(routes[r])) \in 1..(vehicle_capacity - 1)

\* ------------------------------------------------------------------ C3
\* C3: every stop but the depot is on exactly one reported route exactly
\* once or is listed as unassigned, never both, never neither; before the
\* report is complete no stop is reported twice.
C3_SetPartition ==
  /\ \A i \in Stops : Occurrences(i) <= 1
  /\ \A i \in Stops : ~(Visited(i) /\ i \in ReportedUnassigned)
  /\ ReportComplete =>
       /\ \A i \in Stops : Visited(i) \/ i \in ReportedUnassigned
       /\ UNION { Range(routes[r]) \ {0} : r \in DOMAIN routes } = Stops \ ReportedUnassigned

\* A complete report, in a run on finite coordinates with a window for every
\* stop, in which all three vehicles serve stops.
C3_Witness ==
  /\ ReportComplete
  /\ RegularRun
  /\ \A r \in DOMAIN routes : Len(routes[r]) > 2

\* ------------------------------------------------------------------ C4
\* C4: every reported route has the depot 0 first and last; a vehicle that
\* serves no stop is reported as [0, 0] and adds nothing to the total
\* distance, which is the sum of the lengths of the routes that serve stops.
C4_DepotAtBothEnds ==
  /\ \A r \in DOMAIN routes :
       /\ Len(routes[r]) >= 2
       /\ routes[r][1] = 0
       /\ routes[r][Len(routes[r])] = 0
       /\ IsEnd(n, solution.next[Start(n, r - 1)]) => routes[r] = <<0, 0>>
  /\ total_distance = SumLengths(Len(routes))

\* A complete report, in a run on finite coordinates with a window for every
\* stop, with an idle vehicle and a positive total.
C4_Witness ==
  /\ ReportComplete
  /\ RegularRun
  /\ \E r \in DOMAIN routes : routes[r] = <<0, 0>>
  /\ total_distance > 0

\* ----------------------------------------------------------------- C10
\* The arcs of the solution: every index that is not an end, with its next.
Arcs == { <<a, solution.next[a]>> : a \in DOMAIN solution.next }

\* C10: along every arc a -> b of the solution, time(b) = time(a) +
\* time(a, b) + w with 0 <= w <= 30, for the lower and the upper time bound;
\* no time exceeds 600; and no arc needs a wait above the cap to get from
\* the latest time of a into the window of b.
C10_BoundedWaiting ==
  solution.status = "found" =>
    /\ \A arc \in Arcs : \A side \in 1..2 :
         LET w == solution.time[arc[2]][side] - solution.time[arc[1]][side]
                    - time_matrix[<<IndexToNode(n, arc[1]), IndexToNode(n, arc[2])>>]
         IN w >= 0 /\ w <= SlackMax
    /\ \A index \in DOMAIN solution.time :
         /\ solution.time[index][1] >= 0
         /\ solution.time[index][2] <= Horizon
    /\ \A arc \in Arcs :
         cumulRange[arc[2]][1] - cumulRange[arc[1]][2]
           - time_matrix[<<IndexToNode(n, arc[1]), IndexToNode(n, arc[2])>>] <= SlackMax

\* A solution, in a run on finite coordinates with a window for every stop,
\* with an arc between two stops on which the vehicle waits.
C10_Witness ==
  /\ solution.status = "found"
  /\ RegularRun
  /\ \E arc \in Arcs :
       /\ arc[1] \in Stops
       /\ arc[2] \in Stops
       /\ solution.time[arc[2]][1] - solution.time[arc[1]][1]
            - time_matrix[<<arc[1], arc[2]>>] > 0


\* ------------------------------------------------------------------ C2
\* C2: once a run on finite coordinates, over at least the seven stops that
\* have a window, has attempted the solve and ended, every stop that is
\* visited has its printed arrival bounds within its own time window, and a
\* stop that fits on no vehicle is listed as unassigned and not visited.
C2_ArrivalWithinWindowOrUnassigned ==
  (RegularRun /\ pc \in {"done", "crashed"} /\ solution.status # "unset") =>
    \A i \in Stops :
      /\ Visited(i) =>
           \A line \in LinesOf(i) :
             WindowOf(i)[1] <= line.min /\ line.max <= WindowOf(i)[2]
      /\ Unplaceable(i) => (i \in ReportedUnassigned /\ ~Visited(i))

\* ------------------------------------------------------------------ C5
\* C5: when some stop fits on no vehicle (in a run on finite coordinates,
\* over at least the seven stops that have a window), the run does not fail:
\* it ends without an exception, with the report complete and that stop
\* listed as unassigned.
C5_UnplaceableStopIsReported ==
  (RegularRun /\ solution.status # "unset" /\ \E i \in Stops : Unplaceable(i)) =>
    /\ error = ""
    /\ pc = "done" =>
         /\ ReportComplete
         /\ \A i \in Stops : Unplaceable(i) => i \in ReportedUnassigned

\* ------------------------------------------------------------------ C6
\* C6: invalid input (no stop, a coordinate that is not finite) is rejected
\* with an error before any matrix is built: the script never gets past the
\* construction of the distance matrix, creates no model and reports nothing.
C6_InvalidInputRejected ==
  InvalidInput =>
    /\ pc \in {"dist_matrix", "crashed"}
    /\ pc = "crashed" => error \in {"InvalidInput", "ValueError"}
    /\ solution.status = "unset"
    /\ routes = <<>>
    /\ ~mapSaved

\* ------------------------------------------------------------------ C7
\* C7: when the traffic lookup fails, times out or answers with a malformed
\* response, the call is recovered: it neither raises nor blocks.
C7_ProviderFailureRecovered ==
  traffic.response \in ProviderResponses \ {"rows"} =>
    traffic.outcome \notin {"raised", "blocked"}

\* ------------------------------------------------------------------ C9
\* C9: once built, the distance matrix is symmetric, has a zero diagonal
\* and holds only non-negative whole numbers of metres.
C9_DistMatrixSymmetric ==
  DOMAIN dist_matrix = Nodes \X Nodes =>
    \A i \in Nodes : \A j \in Nodes :
      /\ dist_matrix[<<i, j>>] = dist_matrix[<<j, i>>]
      /\ dist_matrix[<<i, i>>] = 0
      /\ dist_matrix[<<i, j>>] \in Nat

====
